---------------------------- MODULE Spec2Model ----------------------------
(***************************************************************************)
(* A model of app.py, the Flask chatbot that answers a query with a verse  *)
(* of the Thirukkural or of the Bhagavad Gita.  Python strings are         *)
(* sequences of one-character strings, so that lower(), split(), the `in`  *)
(* substring test, title() and join() are computed as Python computes them.*)
(***************************************************************************)
EXTENDS Integers, Sequences, FiniteSets, TLC

VARIABLES
    thirukkural_history,   \* ChatMessageHistory().messages of the Thirukkural log
    bhagavad_gita_history, \* ChatMessageHistory().messages of the Bhagavad Gita log
    request,               \* the request handled last, with what its backends did
    response,              \* the HTTP response returned last: [status, body]
    pc,                    \* concurrent handling: where each request is in its handler
    frame,                 \* concurrent handling: each request's local variables
    call                   \* the function call made last by the unit harness

vars == <<thirukkural_history, bhagavad_gita_history, request, response, pc, frame, call>>

-----------------------------------------------------------------------------
(* Bounds of the model. *)

\* Fragments concatenated into one query of the unit harness.
MaxFragments == 3
\* Length of a conversation log given to format_chat_history by the unit harness.
MaxLogLen == 3
\* Largest max_messages given to format_chat_history by the unit harness.
MaxN == 4
\* Exchanges (user turn + assistant turn) the two logs may hold together.
MaxExchanges == 2
\* Locales whose translation fails within one request of the relay harness.
MaxFailing == 2
\* Requests in flight at once in the concurrent model.
NumRequests == 2

-----------------------------------------------------------------------------
(* Python's str and list operations. *)

UpperLetters == <<"A", "B", "C", "D", "E", "F", "G", "H", "I", "J", "K", "L", "M", "N", "O", "P", "Q", "R", "S", "T", "U", "V", "W", "X", "Y", "Z">>
LowerLetters == <<"a", "b", "c", "d", "e", "f", "g", "h", "i", "j", "k", "l", "m", "n", "o", "p", "q", "r", "s", "t", "u", "v", "w", "x", "y", "z">>

UpperSet == {UpperLetters[i] : i \in 1..26}
LowerSet == {LowerLetters[i] : i \in 1..26}

ToLower == [c \in UpperSet |-> LowerLetters[CHOOSE i \in 1..26 : UpperLetters[i] = c]]
ToUpper == [c \in LowerSet |-> UpperLetters[CHOOSE i \in 1..26 : LowerLetters[i] = c]]

IsUpper(c) == c \in UpperSet
IsLower(c) == c \in LowerSet

LowerChar(c) == IF IsUpper(c) THEN ToLower[c] ELSE c
UpperChar(c) == IF IsLower(c) THEN ToUpper[c] ELSE c

\* str.lower()
lower(s) == [i \in 1..Len(s) |-> LowerChar(s[i])]

\* str.title(): a letter that follows a non-letter is upper-cased, every other
\* letter lower-cased.
title(s) ==
    [i \in 1..Len(s) |->
        IF i = 1 \/ ~(IsUpper(s[i-1]) \/ IsLower(s[i-1]))
        THEN UpperChar(s[i]) ELSE LowerChar(s[i])]

\* str.replace(old, new) for one-character old and new.
replace(s, old, new) == [i \in 1..Len(s) |-> IF s[i] = old THEN new ELSE s[i]]

\* `kw in s` for strings: kw occurs in s as a substring.
Contains(s, kw) ==
    \E i \in 0..(Len(s) - Len(kw)) : SubSeq(s, i + 1, i + Len(kw)) = kw

\* any(keyword in s for keyword in keywords), keywords a list.
AnyKeywordIn(keywords, s) == \E k \in 1..Len(keywords) : Contains(s, keywords[k])

Whitespace == {" ", "\t", "\n"}

\* str.split() without arguments: the maximal runs of non-whitespace.
RECURSIVE SplitFrom(_, _, _)
SplitFrom(s, i, word) ==
    IF i > Len(s)
    THEN IF word = <<>> THEN <<>> ELSE <<word>>
    ELSE IF s[i] \in Whitespace
         THEN IF word = <<>> THEN SplitFrom(s, i + 1, <<>>)
                             ELSE <<word>> \o SplitFrom(s, i + 1, <<>>)
         ELSE SplitFrom(s, i + 1, Append(word, s[i]))

split(s) == SplitFrom(s, 1, <<>>)

\* sep.join(parts)
RECURSIVE join(_, _)
join(sep, parts) ==
    IF parts = <<>> THEN <<>>
    ELSE IF Len(parts) = 1 THEN parts[1]
    ELSE parts[1] \o sep \o join(sep, Tail(parts))

\* lst[start:] with Python's index normalisation: a negative start counts from
\* the end, and the result is clamped to the list.
SliceFrom(lst, start) ==
    LET n == Len(lst)
        lo == IF start < 0 THEN (IF n + start < 0 THEN 0 ELSE n + start)
                           ELSE (IF start > n THEN n ELSE start)
    IN  SubSeq(lst, lo + 1, n)

\* lst[i] with a negative index allowed (the callers guard the length).
Index(lst, i) == IF i < 0 THEN lst[Len(lst) + i + 1] ELSE lst[i + 1]

-----------------------------------------------------------------------------
(* Conversation memory: langchain's ChatMessageHistory keeps a list of      *)
(* HumanMessage / AIMessage objects, each with a content.                   *)

HumanMessage(content) == [type |-> "human", content |-> content]
AIMessage(content)    == [type |-> "ai", content |-> content]

add_user_message(messages, text) == Append(messages, HumanMessage(text))
add_ai_message(messages, text)   == Append(messages, AIMessage(text))

S_User      == <<"U", "s", "e", "r">>
S_Assistant == <<"A", "s", "s", "i", "s", "t", "a", "n", "t">>
S_ColonSp   == <<":", " ">>
S_Newline   == <<"\n">>

\* One line of the rendered history (the f-string of format_chat_history).
FormatMessage(msg) ==
    (IF msg.type = "human" THEN S_User ELSE S_Assistant) \o S_ColonSp \o msg.content

\* history.messages[-max_messages:]
RecentMessages(messages, max_messages) == SliceFrom(messages, -max_messages)

format_chat_history(messages, max_messages) ==
    LET recent == RecentMessages(messages, max_messages)
    IN  join(S_Newline, [i \in 1..Len(recent) |-> FormatMessage(recent[i])])

DefaultMaxMessages == 10

-----------------------------------------------------------------------------
(* The query classifier and the follow-up detector. *)

S_thirukkural   == <<"t", "h", "i", "r", "u", "k", "k", "u", "r", "a", "l">>
S_bhagavad_gita == <<"b", "h", "a", "g", "a", "v", "a", "d", "_", "g", "i", "t", "a">>
S_kural         == <<"k", "u", "r", "a", "l">>

thirukkural_keywords ==
    << S_thirukkural, S_kural, <<"t", "a", "m", "i", "l">>, <<"a", "r", "a", "m">>, <<"p", "o", "r", "u", "l">>, <<"i", "n", "b", "a", "m">> >>

gita_keywords ==
    << <<"b", "h", "a", "g", "a", "v", "a", "d", " ", "g", "i", "t", "a">>, <<"g", "i", "t", "a">>, <<"k", "r", "i", "s", "h", "n", "a">>, <<"a", "r", "j", "u", "n", "a">>, <<"y", "o", "g", "a">>, <<"d", "h", "a", "r", "m", "a">> >>

\* A variant of determine_text_type that checks the Gita keywords first.
determine_text_type_gita_first(query) ==
    LET query_lower == lower(query)
    IN  IF AnyKeywordIn(gita_keywords, query_lower) THEN S_bhagavad_gita
        ELSE S_thirukkural

determine_text_type(query) ==
    LET query_lower == lower(query)
    IN  IF AnyKeywordIn(thirukkural_keywords, query_lower) THEN S_thirukkural
        ELSE IF AnyKeywordIn(gita_keywords, query_lower) THEN S_bhagavad_gita
        ELSE S_thirukkural

follow_up_keywords ==
    << S_thirukkural, S_kural, <<"b", "h", "a", "g", "a", "v", "a", "d", " ", "g", "i", "t", "a">>, <<"g", "i", "t", "a">>, <<"s", "i", "m", "i", "l", "a", "r">>, <<"s", "a", "m", "e">> >>

FollowUpMaxWords == 5

\* A variant of is_follow_up_query that takes fewer than five words as short.
is_follow_up_query_under_five(query) ==
    LET query_lower == lower(query)
    IN  /\ Len(split(query_lower)) < FollowUpMaxWords
        /\ AnyKeywordIn(follow_up_keywords, query_lower)

is_follow_up_query(query) ==
    LET query_lower == lower(query)
    IN  /\ Len(split(query_lower)) <= FollowUpMaxWords
        /\ AnyKeywordIn(follow_up_keywords, query_lower)

-----------------------------------------------------------------------------
(* The translation backend and the LLM are outside the program: what they   *)
(* answer is an input of each request.                                      *)

Languages == << "ta", "hi", "ml", "te", "bn", "gu", "kn", "mr", "pa", "ur" >>
LanguageSet == {Languages[i] : i \in 1..Len(Languages)}

\* The text the Azure translator returns for (text, target_language): some text
\* determined by both, here the text tagged with the language.
AzureText(text, target_language) == <<"[", target_language, "]">> \o text

\* translate_text(text, target_language): the translated text, or an exception
\* (keys not set, a status other than 200, a network error) when the call fails.
translate_text(text, target_language, fails) ==
    IF fails THEN [raised |-> TRUE]
             ELSE [raised |-> FALSE, value |-> AzureText(text, target_language)]

S_Translation_failed == <<"T", "r", "a", "n", "s", "l", "a", "t", "i", "o", "n", " ", "f", "a", "i", "l", "e", "d", ".">>

FailedEntry ==
    [translation |-> S_Translation_failed,
     explanation |-> S_Translation_failed,
     story       |-> S_Translation_failed]

\* The body of the loop over the languages: three translate_text calls in a
\* try, whose except stores the sentinel entry.  firstFail is the number of the
\* first call that raises (0: none does); the calls after it are not made.
TranslateEntry(generated_response, lang, firstFail) ==
    LET t == translate_text(generated_response.translation, lang, firstFail = 1)
        e == translate_text(generated_response.explanation, lang, firstFail = 2)
        s == translate_text(generated_response.story, lang, firstFail = 3)
    IN  IF t.raised \/ e.raised \/ s.raised
        THEN FailedEntry
        ELSE [translation |-> t.value, explanation |-> e.value, story |-> s.value]

\* A variant of Translations whose try encloses the loop: the first failure
\* ends the loop, and the languages after it get no entry.
Translations_abort(generated_response, fails) ==
    LET done == {i \in 1..Len(Languages) : \A j \in 1..i : fails[Languages[j]] = 0}
    IN  [lang \in {Languages[i] : i \in done} |->
            TranslateEntry(generated_response, lang, fails[lang])]

\* translations = {} filled by the loop over the ten languages.
Translations(generated_response, fails) ==
    [lang \in LanguageSet |-> TranslateEntry(generated_response, lang, fails[lang])]

\* d[key] = value on a dict.
SetItem(d, key, value) ==
    [k \in DOMAIN d \cup {key} |-> IF k = key THEN value ELSE d[k]]

S_Error            == <<"E", "r", "r", "o", "r">>
S_An_error         == <<"A", "n", " ", "e", "r", "r", "o", "r", " ", "o", "c", "c", "u", "r", "r", "e", "d", ":", " ">>
S_Unable           == <<"U", "n", "a", "b", "l", "e", " ", "t", "o", " ", "g", "e", "n", "e", "r", "a", "t", "e", " ", "a", " ", "s", "t", "o", "r", "y", " ", "a", "t", " ", "t", "h", "i", "s", " ", "t", "i", "m", "e", ".">>
S_Thirukkural_about == <<"T", "h", "i", "r", "u", "k", "k", "u", "r", "a", "l", " ", "a", "b", "o", "u", "t", " ">>
S_Bhagavad_Gita_sp == <<"B", "h", "a", "g", "a", "v", "a", "d", " ", "G", "i", "t", "a", " ">>
S_Translation_sep  == <<" ", "-", " ", "T", "r", "a", "n", "s", "l", "a", "t", "i", "o", "n", ":", " ">>

\* A variant of ErrorReply that drops the exception's text.
ErrorReply_no_message(message) ==
    [verse        |-> S_Error,
     translation  |-> S_Error,
     section      |-> S_Error,
     explanation  |-> S_An_error,
     story        |-> S_Unable,
     translations |-> <<>>]

\* The dict returned by the outer except of generate_response.
ErrorReply(message) ==
    [verse        |-> S_Error,
     translation  |-> S_Error,
     section      |-> S_Error,
     explanation  |-> S_An_error \o message,
     story        |-> S_Unable,
     translations |-> <<>>]

\* result_summary of the two branches.
ThirukkuralSummary(parsed) ==
    S_Thirukkural_about \o lower(parsed.section) \o S_Translation_sep \o parsed.translation
GitaSummary(parsed) ==
    S_Bhagavad_Gita_sp \o parsed.chapter \o S_Translation_sep \o parsed.translation

\* A variant of RecordExchange that appends the assistant turn first.
RecordExchange_ai_first(messages, query, result_summary) ==
    add_user_message(add_ai_message(messages, result_summary), query)

\* The two appends that follow a successful parse.
RecordExchange(messages, query, result_summary) ==
    add_ai_message(add_user_message(messages, query), result_summary)

\* The fields of ThirukkuralResponse and of BhagavadGitaResponse, all required.
ThirukkuralFields == {"verse", "translation", "section", "explanation", "story"}
GitaFields        == {"verse", "translation", "chapter", "explanation", "story"}

S_parse_failed == <<"F", "a", "i", "l", "e", "d", " ", "t", "o", " ", "p", "a", "r", "s", "e">>

\* PydanticOutputParser.parse(content): the model object when the content is a
\* JSON object holding every field of the schema (other keys are dropped), an
\* exception otherwise.  A content is modelled by the JSON object it holds.
parse(fields, content) ==
    IF fields \subseteq DOMAIN content
    THEN [raised |-> FALSE, value |-> [k \in fields |-> content[k]]]
    ELSE [raised |-> TRUE, message |-> S_parse_failed]

\* The parser of a text type: every text type but "thirukkural" takes the else
\* branch of generate_response.
SchemaOf(text_type) == IF text_type = S_thirukkural THEN ThirukkuralFields ELSE GitaFields

\* genai_client.invoke(...) followed by parser.parse(response.content): llm is
\* what the LLM does, an exception or a content.
InvokeAndParse(text_type, llm) ==
    IF llm.kind = "raises" THEN [raised |-> TRUE, message |-> llm.message]
    ELSE parse(SchemaOf(text_type), llm.content)

\* The chat_history formatted into the prompt: the last 10 messages of the
\* text type's log.
ChatHistoryFor(text_type, th, bg) ==
    format_chat_history(IF text_type = S_thirukkural THEN th ELSE bg, DefaultMaxMessages)

\* A variant of generate_response that records the user turn before it
\* invokes the LLM.
generate_response_user_first(query, text_type, llm, fails, th, bg) ==
    LET chat_history == ChatHistoryFor(text_type, th, bg)
        p == InvokeAndParse(text_type, llm)
        th1 == IF text_type = S_thirukkural THEN add_user_message(th, query) ELSE th
        bg1 == IF text_type = S_thirukkural THEN bg ELSE add_user_message(bg, query)
    IN  IF p.raised
        THEN [th |-> th1, bg |-> bg1, chat_history |-> chat_history,
              result |-> ErrorReply(p.message)]
        ELSE LET parsed == p.value
                 result == SetItem(parsed, "translations", Translations(parsed, fails))
             IN  IF text_type = S_thirukkural
                 THEN [th |-> add_ai_message(th1, ThirukkuralSummary(parsed)),
                       bg |-> bg1, chat_history |-> chat_history, result |-> result]
                 ELSE [th |-> th1,
                       bg |-> add_ai_message(bg1, GitaSummary(parsed)),
                       chat_history |-> chat_history, result |-> result]

\* generate_response(query, text_type), given what the LLM and the translator
\* do.  Returns the two logs after the call and the dict returned.
generate_response(query, text_type, llm, fails, th, bg) ==
    LET chat_history == ChatHistoryFor(text_type, th, bg)
        p == InvokeAndParse(text_type, llm)
    IN  IF p.raised
        THEN [th |-> th, bg |-> bg, chat_history |-> chat_history,
              result |-> ErrorReply(p.message)]
        ELSE LET parsed == p.value
                 result == SetItem(parsed, "translations", Translations(parsed, fails))
             IN  IF text_type = S_thirukkural
                 THEN [th |-> RecordExchange(th, query, ThirukkuralSummary(parsed)),
                       bg |-> bg, chat_history |-> chat_history, result |-> result]
                 ELSE [th |-> th,
                       bg |-> RecordExchange(bg, query, GitaSummary(parsed)),
                       chat_history |-> chat_history, result |-> result]

-----------------------------------------------------------------------------
(* The HTTP handlers. *)

greetings == << <<"h", "i">>, <<"h", "e", "l", "l", "o">>, <<"h", "e", "y">>, <<"h", "i", " ", "t", "h", "e", "r", "e">>, <<"h", "e", "l", "l", "o", " ", "t", "h", "e", "r", "e">> >>

\* x in lst for a list.
InList(x, lst) == \E i \in 1..Len(lst) : lst[i] = x

\* `not data.get(key)`: the key is missing or its value is the empty string.
Missing(data, key) == key \notin DOMAIN data \/ data[key] = <<>>

S_Query_required == <<"Q", "u", "e", "r", "y", " ", "i", "s", " ", "r", "e", "q", "u", "i", "r", "e", "d">>
S_Greeting       == <<"G", "r", "e", "e", "t", "i", "n", "g">>
S_Hello          == <<"H", "e", "l", "l", "o", "!", " ", "I", "'", "m", " ", "a", " ", "s", "a", "c", "r", "e", "d", " ", "t", "e", "x", "t", " ", "c", "h", "a", "t", "b", "o", "t", ".", " ", "H", "o", "w", " ", "c", "a", "n", " ", "I", " ", "a", "s", "s", "i", "s", "t", " ", "y", "o", "u", " ", "t", "o", "d", "a", "y", "?">>
S_Friendly       == <<"T", "h", "i", "s", " ", "i", "s", " ", "a", " ", "f", "r", "i", "e", "n", "d", "l", "y", " ", "g", "r", "e", "e", "t", "i", "n", "g", " ", "t", "o", " ", "s", "t", "a", "r", "t", " ", "t", "h", "e", " ", "c", "o", "n", "v", "e", "r", "s", "a", "t", "i", "o", "n", ".">>
S_No_story       == <<"N", "o", " ", "s", "t", "o", "r", "y", " ", "h", "e", "r", "e", ",", " ", "j", "u", "s", "t", " ", "a", " ", "w", "a", "r", "m", " ", "w", "e", "l", "c", "o", "m", "e", "!">>
S_in_open        == <<" ", "(", "i", "n", " ">>
S_in_close       == <<")">>

GreetingReply ==
    [verse |-> S_Greeting, translation |-> S_Hello, section |-> S_Greeting,
     explanation |-> S_Friendly, story |-> S_No_story,
     languages |-> Languages, ready_for_translation |-> TRUE]

\* messages[-2].content if len(messages) >= 2 else ""
LastQuery(messages) == IF Len(messages) >= 2 THEN Index(messages, -2).content ELSE <<>>

\* A variant of FollowUpRoute that reads the log of the domain it selects.
FollowUpRoute_same_log(query, th, bg) ==
    LET kural == Contains(lower(query), S_thirukkural) \/ Contains(lower(query), S_kural)
        text_type == IF kural THEN S_thirukkural ELSE S_bhagavad_gita
        last_query == IF kural THEN LastQuery(th) ELSE LastQuery(bg)
    IN  [text_type |-> text_type,
         query |-> last_query \o S_in_open \o title(replace(text_type, "_", " ")) \o S_in_close]

\* The follow-up branch of handle_query: the domain and the rewritten query.
FollowUpRoute(query, th, bg) ==
    LET kural == Contains(lower(query), S_thirukkural) \/ Contains(lower(query), S_kural)
        text_type == IF kural THEN S_thirukkural ELSE S_bhagavad_gita
        last_query == IF kural THEN LastQuery(bg) ELSE LastQuery(th)
    IN  [text_type |-> text_type,
         query |-> last_query \o S_in_open \o title(replace(text_type, "_", " ")) \o S_in_close]

\* What handle_query hands to generate_response.
Route(query, th, bg) ==
    IF is_follow_up_query(query)
    THEN FollowUpRoute(query, th, bg)
    ELSE [text_type |-> determine_text_type(query), query |-> query]

NoCall == [called |-> FALSE]

\* handle_query for the JSON body data.  Returns the logs after the request,
\* the response and the call made to generate_response, if any.
handle_query(data, llm, fails, th, bg) ==
    IF Missing(data, "query")
    THEN [th |-> th, bg |-> bg, gen |-> NoCall,
          response |-> [status |-> 400, body |-> [error |-> S_Query_required]]]
    ELSE IF InList(lower(data.query), greetings)
    THEN [th |-> th, bg |-> bg, gen |-> NoCall,
          response |-> [status |-> 200, body |-> GreetingReply]]
    ELSE LET route == Route(data.query, th, bg)
             g == generate_response(route.query, route.text_type, llm, fails, th, bg)
             body == SetItem(SetItem(g.result, "languages", Languages),
                             "ready_for_translation", TRUE)
         IN  [th |-> g.th, bg |-> g.bg,
              gen |-> [called |-> TRUE, query |-> route.query, text_type |-> route.text_type,
                       chat_history |-> g.chat_history],
              response |-> [status |-> 200, body |-> body]]

\* `not data.get("language")`; a language code is an atom, "" the empty one.
MissingLanguage(data) == "language" \notin DOMAIN data \/ data.language = ""

S_Translate_required == <<"T", "e", "x", "t", ",", " ", "e", "x", "p", "l", "a", "n", "a", "t", "i", "o", "n", ",", " ", "s", "t", "o", "r", "y", ",", " ", "a", "n", "d", " ", "t", "a", "r", "g", "e", "t", " ", "l", "a", "n", "g", "u", "a", "g", "e", " ", "a", "r", "e", " ", "r", "e", "q", "u", "i", "r", "e", "d">>
S_Azure_error        == <<"A", "z", "u", "r", "e", " ", "T", "r", "a", "n", "s", "l", "a", "t", "o", "r", " ", "A", "P", "I", " ", "e", "r", "r", "o", "r">>

\* handle_translation for the JSON body data; firstFail as in TranslateEntry.
handle_translation(data, firstFail) ==
    IF Missing(data, "text") \/ Missing(data, "explanation")
       \/ Missing(data, "story") \/ MissingLanguage(data)
    THEN [status |-> 400, body |-> [error |-> S_Translate_required]]
    ELSE LET t == translate_text(data.text, data.language, firstFail = 1)
             e == translate_text(data.explanation, data.language, firstFail = 2)
             s == translate_text(data.story, data.language, firstFail = 3)
         IN  IF t.raised \/ e.raised \/ s.raised
             THEN [status |-> 500, body |-> [error |-> S_Azure_error]]
             ELSE [status |-> 200,
                   body |-> [translated_text |-> t.value,
                             translated_explanation |-> e.value,
                             translated_story |-> s.value,
                             languages |-> Languages,
                             ready_for_translation |-> TRUE]]

S_Cleared == <<"C", "o", "n", "v", "e", "r", "s", "a", "t", "i", "o", "n", " ", "h", "i", "s", "t", "o", "r", "y", " ", "c", "l", "e", "a", "r", "e", "d", "!">>

\* A variant of clear_history that clears the Thirukkural log only.
clear_history_one(th, bg) ==
    [th |-> <<>>, bg |-> bg,
     response |-> [status |-> 200, body |-> [message |-> S_Cleared]]]

\* clear_history: both logs are emptied.
clear_history(th, bg) ==
    [th |-> <<>>, bg |-> <<>>,
     response |-> [status |-> 200, body |-> [message |-> S_Cleared]]]


-----------------------------------------------------------------------------
(* Inputs of the server models. *)

Q_love    == <<"l", "o", "v", "e">>
Q_Dharma  == <<"D", "h", "a", "r", "m", "a">>
Q_same    == <<"s", "a", "m", "e", " ", "k", "u", "r", "a", "l">>
Q_similar == <<"s", "i", "m", "i", "l", "a", "r", " ", "p", "l", "e", "a", "s", "e">>
Q_Hi      == <<"H", "i">>

\* JSON bodies posted to /query.
QueryBodies ==
    { <<>>, [query |-> <<>>], [query |-> Q_Hi], [query |-> Q_love], [query |-> Q_Dharma],
      [query |-> Q_same], [query |-> Q_similar] }

KuralJSON ==
    [verse |-> <<"v", "1">>, translation |-> <<"t", "1">>, section |-> <<"A", "r", "a", "m">>,
     explanation |-> <<"e", "1">>, story |-> <<"s", "1">>]
GitaJSON ==
    [verse |-> <<"v", "2">>, translation |-> <<"t", "2">>, chapter |-> <<"2", ".", "4", "7">>,
     explanation |-> <<"e", "2">>, story |-> <<"s", "2">>]

NotJSON == [raw |-> <<"s", "o", "r", "r", "y">>]

S_timeout == <<"t", "i", "m", "e", "o", "u", "t">>

\* What the LLM does on one invocation.
LLMOutcomes ==
    { [kind |-> "raises", message |-> S_timeout],
      [kind |-> "content", content |-> KuralJSON],
      [kind |-> "content", content |-> GitaJSON],
      [kind |-> "content", content |-> NotJSON] }

NoFailure == [lang \in LanguageSet |-> 0]

\* What the translator does during one request of the server models: for each
\* language the first of its three calls that fails, 0 when none does.
ServerFails ==
    { NoFailure,
      [lang \in LanguageSet |-> IF lang = "ur" THEN 2 ELSE 0],
      [lang \in LanguageSet |-> 1] }

\* JSON bodies posted to /translate.
TranslateBodies ==
    { [text |-> <<"t", "1">>, explanation |-> <<"e", "1">>, story |-> <<"s", "1">>, language |-> "ta"],
      [text |-> <<"t", "1">>, explanation |-> <<"e", "1">>, story |-> <<"s", "1">>, language |-> ""],
      [text |-> <<"t", "1">>, explanation |-> <<"e", "1">>] }

LogBound == 2 * MaxExchanges

Requests == 1..NumRequests

NoRequest  == [endpoint |-> "none"]
NoResponse == [status |-> 0, body |-> <<>>]
IdleFrame  == [query |-> <<>>, text_type |-> <<>>, parsed |-> <<>>, summary |-> <<>>]
NoUnitCall == [fn |-> "none"]

-----------------------------------------------------------------------------
(* The server handling one request at a time. *)

Init ==
    /\ thirukkural_history = <<>>
    /\ bhagavad_gita_history = <<>>
    /\ request = NoRequest
    /\ response = NoResponse
    /\ pc = [r \in Requests |-> "idle"]
    /\ frame = [r \in Requests |-> IdleFrame]
    /\ call = NoUnitCall

\* POST /query
HandleQuery ==
    \E data \in QueryBodies, llm \in LLMOutcomes, fails \in ServerFails :
        LET h == handle_query(data, llm, fails, thirukkural_history, bhagavad_gita_history)
        IN  /\ Len(h.th) + Len(h.bg) <= LogBound
            /\ thirukkural_history' = h.th
            /\ bhagavad_gita_history' = h.bg
            /\ request' = [endpoint |-> "/query", data |-> data, llm |-> llm,
                           fails |-> fails, gen |-> h.gen]
            /\ response' = h.response
            /\ UNCHANGED <<pc, frame, call>>

\* POST /translate
HandleTranslation ==
    \E data \in TranslateBodies, firstFail \in 0..3 :
        /\ request' = [endpoint |-> "/translate", data |-> data, firstFail |-> firstFail]
        /\ response' = handle_translation(data, firstFail)
        /\ UNCHANGED <<thirukkural_history, bhagavad_gita_history, pc, frame, call>>

\* POST /clear_history
ClearHistory ==
    LET c == clear_history(thirukkural_history, bhagavad_gita_history)
    IN  /\ thirukkural_history' = c.th
        /\ bhagavad_gita_history' = c.bg
        /\ request' = [endpoint |-> "/clear_history"]
        /\ response' = c.response
        /\ UNCHANGED <<pc, frame, call>>

\* GET /
Home ==
    /\ request' = [endpoint |-> "/"]
    /\ response' = [status |-> 200, body |-> [template |-> "index.html"]]
    /\ UNCHANGED <<thirukkural_history, bhagavad_gita_history, pc, frame, call>>

Next == HandleQuery \/ HandleTranslation \/ ClearHistory \/ Home

Spec == Init /\ [][Next]_vars


-----------------------------------------------------------------------------
(* Properties of the server handling one request at a time. *)

\* The request handled last is a /query that reached generate_response.
Generated(req) == req.endpoint = "/query" /\ req.gen.called

\* The LLM's answer to the request's call parses against the schema of the
\* text type handed to generate_response.
Parsed(req) ==
    /\ Generated(req)
    /\ req.llm.kind = "content"
    /\ SchemaOf(req.gen.text_type) \subseteq DOMAIN req.llm.content

\* The text of the exception the request's LLM call or parse ended with.
FailureText(req) == IF req.llm.kind = "raises" THEN req.llm.message ELSE S_parse_failed

\* C1: whenever the LLM invocation raises or its content does not parse,
\* whatever the query and the text type, generate_response returns the sentinel
\* (verse, translation and section "Error", an explanation holding the error's
\* text, no translations) and handle_query answers with it, status 200.
C1_ErrorSentinel ==
    (Generated(request) /\ ~Parsed(request)) =>
        /\ response.status = 200
        /\ response.body.verse = S_Error
        /\ response.body.translation = S_Error
        /\ response.body.section = S_Error
        /\ Contains(response.body.explanation, FailureText(request))
        /\ Len(response.body.explanation) > Len(FailureText(request))
        /\ DOMAIN response.body.translations = {}

\* C1 witness: a Bhagavad Gita request whose LLM content failed to parse was
\* answered with the sentinel.
C1_Witness ==
    /\ Generated(request) /\ ~Parsed(request)
    /\ request.gen.text_type = S_bhagavad_gita
    /\ request.llm.kind = "content"
    /\ response.body.verse = S_Error

\* The summary line of a parsed reply, by text type.
SummaryOf(text_type, content) ==
    IF text_type = S_thirukkural
    THEN <<"T", "h", "i", "r", "u", "k", "k", "u", "r", "a", "l", " ", "a", "b", "o", "u", "t", " ">> \o lower(content.section) \o <<" ", "-", " ", "T", "r", "a", "n", "s", "l", "a", "t", "i", "o", "n", ":", " ">> \o content.translation
    ELSE <<"B", "h", "a", "g", "a", "v", "a", "d", " ", "G", "i", "t", "a", " ">> \o content.chapter \o <<" ", "-", " ", "T", "r", "a", "n", "s", "l", "a", "t", "i", "o", "n", ":", " ">> \o content.translation

\* C3: a step that handles a request whose LLM reply parses appends to the log
\* of the text type exactly the user turn holding the query handed to
\* generate_response followed by the assistant turn holding the summary, and
\* leaves the other log as it was, whatever the translator does.
C3_TwoTurnsAppended ==
    [][Parsed(request') =>
        LET turns == << [type |-> "human", content |-> request'.gen.query],
                        [type |-> "ai",
                         content |-> SummaryOf(request'.gen.text_type, request'.llm.content)] >>
        IN  IF request'.gen.text_type = S_thirukkural
            THEN /\ thirukkural_history' = thirukkural_history \o turns
                 /\ bhagavad_gita_history' = bhagavad_gita_history
            ELSE /\ bhagavad_gita_history' = bhagavad_gita_history \o turns
                 /\ thirukkural_history' = thirukkural_history]_vars

\* C3 witness: a parsed request all of whose translations failed has its two
\* turns at the end of a log that already held an exchange.
C3_Witness ==
    /\ Parsed(request)
    /\ \A lang \in LanguageSet : request.fails[lang] # 0
    /\ request.gen.text_type = S_thirukkural
    /\ Len(thirukkural_history) = 4
    /\ thirukkural_history[3] = [type |-> "human", content |-> request.gen.query]
    /\ thirukkural_history[4].type = "ai"

\* The request is a /query with a non-empty query that is no greeting.
Routed(req) ==
    /\ req.endpoint = "/query"
    /\ "query" \in DOMAIN req.data
    /\ req.data.query # <<>>
    /\ \A g \in {<<"h", "i">>, <<"h", "e", "l", "l", "o">>, <<"h", "e", "y">>, <<"h", "i", " ", "t", "h", "e", "r", "e">>, <<"h", "e", "l", "l", "o", " ", "t", "h", "e", "r", "e">>} :
           lower(req.data.query) # g

\* The text of the second-to-last message of a log, "" under two messages.
SecondToLast(log) == IF Len(log) < 2 THEN <<>> ELSE log[Len(log) - 1].content

\* C7: a step that handles a non-empty, non-greeting query hands the
\* classifier's text type and the query itself to the generator when the
\* query is no follow-up; when it is one, the text type is thirukkural if the
\* lower-cased query contains "thirukkural" or "kural" and bhagavad_gita if
\* not, the query handed over is the second-to-last text of the other text
\* type's log followed by " (in <Title>)", and that other log is not changed.
C7_FollowUpRouting ==
    [][Routed(request') =>
        LET q == request'.data.query
            g == request'.gen
            kural == Contains(lower(q), <<"t", "h", "i", "r", "u", "k", "k", "u", "r", "a", "l">>) \/ Contains(lower(q), <<"k", "u", "r", "a", "l">>)
        IN  /\ g.called
            /\ IF ~is_follow_up_query(q)
               THEN g.text_type = determine_text_type(q) /\ g.query = q
               ELSE IF kural
               THEN /\ g.text_type = <<"t", "h", "i", "r", "u", "k", "k", "u", "r", "a", "l">>
                    /\ g.query = SecondToLast(bhagavad_gita_history) \o <<" ", "(", "i", "n", " ", "T", "h", "i", "r", "u", "k", "k", "u", "r", "a", "l", ")">>
                    /\ bhagavad_gita_history' = bhagavad_gita_history
               ELSE /\ g.text_type = <<"b", "h", "a", "g", "a", "v", "a", "d", "_", "g", "i", "t", "a">>
                    /\ g.query = SecondToLast(thirukkural_history) \o <<" ", "(", "i", "n", " ", "B", "h", "a", "g", "a", "v", "a", "d", " ", "G", "i", "t", "a", ")">>
                    /\ thirukkural_history' = thirukkural_history]_vars

\* C7 witness: the follow-up "similar please", which the classifier sends to
\* thirukkural, went to bhagavad_gita with the last Thirukkural query rewritten,
\* and was recorded in the Bhagavad Gita log.
C7_Witness ==
    /\ Routed(request)
    /\ request.data.query = Q_similar
    /\ determine_text_type(Q_similar) = S_thirukkural
    /\ request.gen.text_type = S_bhagavad_gita
    /\ request.gen.query = Q_love \o <<" ", "(", "i", "n", " ", "B", "h", "a", "g", "a", "v", "a", "d", " ", "G", "i", "t", "a", ")">>
    /\ Len(thirukkural_history) = 2
    /\ Len(bhagavad_gita_history) = 2
    /\ bhagavad_gita_history[1].content = request.gen.query

\* The request did not reach a successful parse, or is a /translate.
NoParse(req) ==
    \/ req.endpoint = "/translate"
    \/ /\ req.endpoint = "/query"
       /\ \/ Missing(req.data, "query")
          \/ InList(lower(req.data.query), greetings)
          \/ ~Parsed(req)

\* C9: a step that handles a /query which does not reach a successful parse
\* (no query, an empty one, a greeting, an LLM or parse failure) or a
\* /translate leaves both logs as they were.
C9_FailedRequestKeepsLogs ==
    [][NoParse(request') =>
        /\ thirukkural_history' = thirukkural_history
        /\ bhagavad_gita_history' = bhagavad_gita_history]_vars

\* C9 witness: a request whose LLM call or parse failed was handled while a log
\* held an exchange, and the log holds no more than that.
C9_Witness ==
    /\ Generated(request) /\ ~Parsed(request)
    /\ request.gen.text_type = S_thirukkural
    /\ Len(thirukkural_history) = 2

\* A log alternates user and assistant turns, starting with a user turn and
\* ending with an assistant turn.
Alternates(log) ==
    /\ Len(log) % 2 = 0
    /\ \A i \in 1..Len(log) : log[i].type = (IF i % 2 = 1 THEN "human" ELSE "ai")

\* C10: with requests handled one at a time, each log has even length and
\* alternates user and assistant turns from a user turn on; after a
\* /clear_history both logs are empty; and the second-to-last message of a log
\* of two or more messages is a user turn.
C10_LogsAlternate ==
    /\ Alternates(thirukkural_history)
    /\ Alternates(bhagavad_gita_history)
    /\ request.endpoint = "/clear_history" =>
           thirukkural_history = <<>> /\ bhagavad_gita_history = <<>>
    /\ \A log \in {thirukkural_history, bhagavad_gita_history} :
           Len(log) >= 2 => log[Len(log) - 1].type = "human"

\* C10 witness: a log holds two exchanges.
C10_Witness ==
    /\ Len(bhagavad_gita_history) = 4
    /\ bhagavad_gita_history[3].type = "human"


-----------------------------------------------------------------------------
(* The functions called on their own, on inputs drawn from bounded sets. *)

Fragments ==
    { <<"k", "u", "r", "a", "l">>, <<"G", "i", "t", "a", " ">>, <<"s", "a", "m", "e", " ", "o", "n", "e", " ">>, <<" ">>, <<"t", "e", "l", "l", " ", "m", "e", " ", "a", "b", "o", "u", "t", " ">>, <<"D", "h", "a", "r", "m", "a">>,
      <<"a", "\t", "b", " ">>, <<"l", "o", "v", "e">> }

\* The strings made of at most n fragments.
RECURSIVE Concats(_)
Concats(n) ==
    IF n = 0 THEN {<<>>}
    ELSE LET shorter == Concats(n - 1)
         IN  shorter \cup {p \o f : p \in shorter, f \in Fragments}

Q_similar_please == <<"s", "i", "m", "i", "l", "a", "r", " ", "p", "l", "e", "a", "s", "e">>
Q_nine_words     == <<"t", "e", "l", "l", " ", "m", "e", " ", "a", "b", "o", "u", "t", " ", "d", "h", "a", "r", "m", "a", " ", "a", "n", "d", " ", "k", "a", "r", "m", "a", " ", "i", "n", " ", "d", "e", "t", "a", "i", "l", " ", "p", "l", "e", "a", "s", "e", " ", "n", "o", "w">>

UnitQueries == Concats(MaxFragments) \cup {Q_similar_please, Q_nine_words}

UnitMessages ==
    { HumanMessage(<<"a">>), AIMessage(<<"b">>), HumanMessage(<<"c">>), AIMessage(<<"a">>) }

\* The logs of at most n messages.
RECURSIVE LogsUpTo(_)
LogsUpTo(n) ==
    IF n = 0 THEN {<<>>}
    ELSE LET shorter == LogsUpTo(n - 1)
         IN  shorter \cup {Append(l, m) : l \in shorter, m \in UnitMessages}

UnitLogs == LogsUpTo(MaxLogLen)

\* Each run of the harness makes one call.
CallDetermineTextType ==
    \E q \in UnitQueries :
        /\ call = NoUnitCall
        /\ call' = [fn |-> "determine_text_type", query |-> q,
                    result |-> determine_text_type(q)]
        /\ UNCHANGED <<thirukkural_history, bhagavad_gita_history, request, response, pc, frame>>

CallIsFollowUpQuery ==
    \E q \in UnitQueries :
        /\ call = NoUnitCall
        /\ call' = [fn |-> "is_follow_up_query", query |-> q,
                    result |-> is_follow_up_query(q)]
        /\ UNCHANGED <<thirukkural_history, bhagavad_gita_history, request, response, pc, frame>>

CallFormatChatHistory ==
    \E messages \in UnitLogs, n \in 0..MaxN :
        /\ call = NoUnitCall
        /\ call' = [fn |-> "format_chat_history", messages |-> messages,
                    max_messages |-> n, result |-> format_chat_history(messages, n)]
        /\ UNCHANGED <<thirukkural_history, bhagavad_gita_history, request, response, pc, frame>>

NextUnit == CallDetermineTextType \/ CallIsFollowUpQuery \/ CallFormatChatHistory

SpecUnit == Init /\ [][NextUnit]_vars

\* s, lower-cased, contains one of the strings of the set kws.
Mentions(s, kws) == \E kw \in kws : Contains(lower(s), kw)

\* C4: determine_text_type answers thirukkural for a query that mentions a
\* Thirukkural keyword, whether or not it mentions a Gita keyword too,
\* bhagavad_gita for one that mentions only Gita keywords, and thirukkural for
\* one that mentions neither.
C4_Classifier ==
    call.fn = "determine_text_type" =>
        LET a == Mentions(call.query,
                    {<<"t", "h", "i", "r", "u", "k", "k", "u", "r", "a", "l">>, <<"k", "u", "r", "a", "l">>, <<"t", "a", "m", "i", "l">>, <<"a", "r", "a", "m">>, <<"p", "o", "r", "u", "l">>, <<"i", "n", "b", "a", "m">>})
            b == Mentions(call.query,
                    {<<"b", "h", "a", "g", "a", "v", "a", "d", " ", "g", "i", "t", "a">>, <<"g", "i", "t", "a">>, <<"k", "r", "i", "s", "h", "n", "a">>, <<"a", "r", "j", "u", "n", "a">>, <<"y", "o", "g", "a">>, <<"d", "h", "a", "r", "m", "a">>})
        IN  /\ a => call.result = <<"t", "h", "i", "r", "u", "k", "k", "u", "r", "a", "l">>
            /\ (~a /\ b) => call.result = <<"b", "h", "a", "g", "a", "v", "a", "d", "_", "g", "i", "t", "a">>
            /\ (~a /\ ~b) => call.result = <<"t", "h", "i", "r", "u", "k", "k", "u", "r", "a", "l">>

\* C4 witness: a query that mentions keywords of both texts, one of them in
\* upper case, was classified thirukkural.
C4_Witness ==
    /\ call.fn = "determine_text_type"
    /\ call.query = <<"G", "i", "t", "a", " ", "k", "u", "r", "a", "l">>
    /\ call.result = <<"t", "h", "i", "r", "u", "k", "k", "u", "r", "a", "l">>

\* The number of words of s: the places where a run of non-whitespace starts.
WordCount(s) ==
    Cardinality({i \in 1..Len(s) :
        /\ s[i] \notin {" ", "\t", "\n"}
        /\ (i = 1 \/ s[i - 1] \in {" ", "\t", "\n"})})

\* C6: is_follow_up_query is true exactly for the queries of at most 5 words
\* that mention thirukkural, kural, bhagavad gita, gita, similar or same; so it
\* is true of "similar please" and false of every query of more than 5 words.
C6_FollowUpDetector ==
    call.fn = "is_follow_up_query" =>
        /\ call.result <=>
              /\ WordCount(call.query) <= 5
              /\ Mentions(call.query, {<<"t", "h", "i", "r", "u", "k", "k", "u", "r", "a", "l">>, <<"k", "u", "r", "a", "l">>, <<"b", "h", "a", "g", "a", "v", "a", "d", " ", "g", "i", "t", "a">>,
                                       <<"g", "i", "t", "a">>, <<"s", "i", "m", "i", "l", "a", "r">>, <<"s", "a", "m", "e">>})
        /\ call.query = <<"s", "i", "m", "i", "l", "a", "r", " ", "p", "l", "e", "a", "s", "e">> => call.result
        /\ WordCount(call.query) > 5 => ~call.result

\* C6 witness: a query of exactly 5 words that mentions "same" was found to be
\* a follow-up.
C6_Witness ==
    /\ call.fn = "is_follow_up_query"
    /\ call.query = <<"t", "e", "l", "l", " ", "m", "e", " ", "a", "b", "o", "u", "t", " ", "s", "a", "m", "e", " ", "o", "n", "e", " ">>
    /\ WordCount(call.query) = 5
    /\ call.result

\* C6, the other side: a query of 6 words that mentions "kural" was found not
\* to be a follow-up.
C6_LongQueryReached ==
    /\ call.fn = "is_follow_up_query"
    /\ call.query = <<"t", "e", "l", "l", " ", "m", "e", " ", "a", "b", "o", "u", "t", " ", "s", "a", "m", "e", " ", "o", "n", "e", " ", "k", "u", "r", "a", "l">>
    /\ ~call.result

Min(a, b) == IF a <= b THEN a ELSE b

\* The last k turns of a log, rendered one per line, oldest first.
RenderLast(log, k) ==
    join(<<"\n">>,
         [i \in 1..k |->
            LET msg == log[Len(log) - k + i]
            IN  (IF msg.type = "human" THEN <<"U", "s", "e", "r", ":", " ">> ELSE <<"A", "s", "s", "i", "s", "t", "a", "n", "t", ":", " ">>) \o msg.content])

\* C5: for every log and every n >= 0, format_chat_history(log, n) renders the
\* last min(n, length) turns of the log, oldest first, each as "User: <text>"
\* or "Assistant: <text>": never more than n turns.
C5_RecentTurns ==
    call.fn = "format_chat_history" =>
        call.result = RenderLast(call.messages, Min(call.max_messages, Len(call.messages)))

\* The same for n >= 1 only.
C5_RecentTurnsPositive ==
    (call.fn = "format_chat_history" /\ call.max_messages >= 1) =>
        call.result = RenderLast(call.messages, Min(call.max_messages, Len(call.messages)))

\* With n = 0 the whole log is rendered.
C5_ZeroRendersAll ==
    (call.fn = "format_chat_history" /\ call.max_messages = 0) =>
        call.result = RenderLast(call.messages, Len(call.messages))


-----------------------------------------------------------------------------
(* generate_response called on its own, on every pattern of translation     *)
(* failures that hits at most MaxFailing languages, and on the one that     *)
(* hits them all.                                                           *)

FailingSets == {S \in SUBSET LanguageSet : Cardinality(S) <= MaxFailing}

RelayFails ==
    UNION { { [lang \in LanguageSet |-> IF lang \in S THEN k[lang] ELSE 0] :
                k \in [S -> 1..3] } : S \in FailingSets }
    \cup { [lang \in LanguageSet |-> 1] }

CallGenerateResponse ==
    \E text_type \in {S_thirukkural, S_bhagavad_gita}, llm \in LLMOutcomes, fails \in RelayFails :
        LET g == generate_response(Q_love, text_type, llm, fails,
                                   thirukkural_history, bhagavad_gita_history)
        IN  /\ call = NoUnitCall
            /\ call' = [fn |-> "generate_response", query |-> Q_love, text_type |-> text_type,
                        llm |-> llm, fails |-> fails, result |-> g.result]
            /\ thirukkural_history' = g.th
            /\ bhagavad_gita_history' = g.bg
            /\ UNCHANGED <<request, response, pc, frame>>

NextRelay == CallGenerateResponse

SpecRelay == Init /\ [][NextRelay]_vars

\* The call's LLM content parses against the schema of its text type.
CallParsed ==
    /\ call.fn = "generate_response"
    /\ call.llm.kind = "content"
    /\ SchemaOf(call.text_type) \subseteq DOMAIN call.llm.content

\* C2: whenever the reply is generated, whatever translate calls fail, the
\* translations have exactly the 10 languages as keys; a language one of whose
\* three calls fails holds "Translation failed." three times, and every other
\* language holds the three translated texts, whatever happens to the other
\* languages; and the reply is the parsed one, not the error sentinel.
C2_TranslationIsolation ==
    CallParsed =>
        LET t == call.result.translations
            c == call.llm.content
        IN  /\ DOMAIN t = {"ta", "hi", "ml", "te", "bn", "gu", "kn", "mr", "pa", "ur"}
            /\ \A lang \in DOMAIN t :
                 IF call.fails[lang] # 0
                 THEN t[lang] = [translation |-> <<"T", "r", "a", "n", "s", "l", "a", "t", "i", "o", "n", " ", "f", "a", "i", "l", "e", "d", ".">>,
                                 explanation |-> <<"T", "r", "a", "n", "s", "l", "a", "t", "i", "o", "n", " ", "f", "a", "i", "l", "e", "d", ".">>,
                                 story       |-> <<"T", "r", "a", "n", "s", "l", "a", "t", "i", "o", "n", " ", "f", "a", "i", "l", "e", "d", ".">>]
                 ELSE t[lang] = [translation |-> AzureText(c.translation, lang),
                                 explanation |-> AzureText(c.explanation, lang),
                                 story       |-> AzureText(c.story, lang)]
            /\ call.result.verse = c.verse
            /\ call.result.translation = c.translation
            /\ call.result.explanation = c.explanation
            /\ call.result.story = c.story
            /\ call.result.verse # <<"E", "r", "r", "o", "r">>

\* C2 witness: the third call for "hi" and the first for "ur" failed; both
\* hold the sentinel, and "ta" before them, "ml" between them hold translations.
C2_Witness ==
    /\ CallParsed
    /\ call.fails["hi"] = 3 /\ call.fails["ur"] = 1
    /\ \A lang \in LanguageSet \ {"hi", "ur"} : call.fails[lang] = 0
    /\ call.result.translations["hi"].translation = <<"T", "r", "a", "n", "s", "l", "a", "t", "i", "o", "n", " ", "f", "a", "i", "l", "e", "d", ".">>
    /\ call.result.translations["ur"].story = <<"T", "r", "a", "n", "s", "l", "a", "t", "i", "o", "n", " ", "f", "a", "i", "l", "e", "d", ".">>
    /\ call.result.translations["ta"].story = AzureText(call.llm.content.story, "ta")
    /\ call.result.translations["ml"].story = AzureText(call.llm.content.story, "ml")


-----------------------------------------------------------------------------
(* The server handling /query requests concurrently, one thread each: the   *)
(* statements of handle_query and generate_response that read or write a    *)
(* log are separate steps, and nothing in the program orders the steps of   *)
(* two requests.                                                            *)

ErrorResponse(message) ==
    [status |-> 200,
     body |-> SetItem(SetItem(ErrorReply(message), "languages", Languages),
                      "ready_for_translation", TRUE)]

\* handle_query up to the call of generate_response: validation, the greeting,
\* the classifier and the follow-up rewrite, which reads the other log.
Begin(r) ==
    /\ pc[r] = "idle"
    /\ \E data \in QueryBodies :
        IF Missing(data, "query")
        THEN /\ response' = [status |-> 400, body |-> [error |-> S_Query_required]]
             /\ pc' = [pc EXCEPT ![r] = "done"]
             /\ UNCHANGED frame
        ELSE IF InList(lower(data.query), greetings)
        THEN /\ response' = [status |-> 200, body |-> GreetingReply]
             /\ pc' = [pc EXCEPT ![r] = "done"]
             /\ UNCHANGED frame
        ELSE LET route == Route(data.query, thirukkural_history, bhagavad_gita_history)
             IN  /\ frame' = [frame EXCEPT ![r] = [IdleFrame EXCEPT !.query = route.query,
                                                                 !.text_type = route.text_type]]
                 /\ pc' = [pc EXCEPT ![r] = "invoke"]
                 /\ UNCHANGED response
    /\ UNCHANGED <<thirukkural_history, bhagavad_gita_history, request, call>>

\* genai_client.invoke, parser.parse and result_summary.
InvokeLLM(r) ==
    /\ pc[r] = "invoke"
    /\ \E llm \in LLMOutcomes :
        LET p == InvokeAndParse(frame[r].text_type, llm)
        IN  IF p.raised
            THEN /\ response' = ErrorResponse(p.message)
                 /\ pc' = [pc EXCEPT ![r] = "done"]
                 /\ UNCHANGED frame
            ELSE /\ frame' = [frame EXCEPT ![r].parsed = p.value,
                                           ![r].summary =
                                               IF frame[r].text_type = S_thirukkural
                                               THEN ThirukkuralSummary(p.value)
                                               ELSE GitaSummary(p.value)]
                 /\ pc' = [pc EXCEPT ![r] = "add_user"]
                 /\ UNCHANGED response
    /\ UNCHANGED <<thirukkural_history, bhagavad_gita_history, request, call>>

\* A variant of AddUserMessage under a lock held from the user turn's append
\* to the assistant turn's: it waits while another request is between its two
\* appends to the same log.
AddUserMessage_locked(r) ==
    /\ pc[r] = "add_user"
    /\ \A o \in Requests \ {r} :
          ~(pc[o] = "add_ai" /\ frame[o].text_type = frame[r].text_type)
    /\ IF frame[r].text_type = S_thirukkural
       THEN /\ thirukkural_history' = add_user_message(thirukkural_history, frame[r].query)
            /\ UNCHANGED bhagavad_gita_history
       ELSE /\ bhagavad_gita_history' = add_user_message(bhagavad_gita_history, frame[r].query)
            /\ UNCHANGED thirukkural_history
    /\ pc' = [pc EXCEPT ![r] = "add_ai"]
    /\ UNCHANGED <<request, response, frame, call>>

\* thirukkural_history.add_user_message(query), or the Bhagavad Gita log's.
AddUserMessage(r) ==
    /\ pc[r] = "add_user"
    /\ IF frame[r].text_type = S_thirukkural
       THEN /\ thirukkural_history' = add_user_message(thirukkural_history, frame[r].query)
            /\ UNCHANGED bhagavad_gita_history
       ELSE /\ bhagavad_gita_history' = add_user_message(bhagavad_gita_history, frame[r].query)
            /\ UNCHANGED thirukkural_history
    /\ pc' = [pc EXCEPT ![r] = "add_ai"]
    /\ UNCHANGED <<request, response, frame, call>>

\* thirukkural_history.add_ai_message(result_summary), or the Bhagavad Gita log's.
AddAiMessage(r) ==
    /\ pc[r] = "add_ai"
    /\ IF frame[r].text_type = S_thirukkural
       THEN /\ thirukkural_history' = add_ai_message(thirukkural_history, frame[r].summary)
            /\ UNCHANGED bhagavad_gita_history
       ELSE /\ bhagavad_gita_history' = add_ai_message(bhagavad_gita_history, frame[r].summary)
            /\ UNCHANGED thirukkural_history
    /\ pc' = [pc EXCEPT ![r] = "translate"]
    /\ UNCHANGED <<request, response, frame, call>>

\* The translation loop, and the response of handle_query.
Respond(r) ==
    /\ pc[r] = "translate"
    /\ \E fails \in ServerFails :
        LET result == SetItem(frame[r].parsed, "translations",
                              Translations(frame[r].parsed, fails))
        IN  response' = [status |-> 200,
                         body |-> SetItem(SetItem(result, "languages", Languages),
                                          "ready_for_translation", TRUE)]
    /\ pc' = [pc EXCEPT ![r] = "done"]
    /\ UNCHANGED <<thirukkural_history, bhagavad_gita_history, request, frame, call>>

NextConc ==
    \E r \in Requests :
        \/ Begin(r)
        \/ InvokeLLM(r)
        \/ AddUserMessage(r)
        \/ AddAiMessage(r)
        \/ Respond(r)

SpecConc == Init /\ [][NextConc]_vars

\* C8: the log is guarded by no lock: a request about to append its user turn
\* can do so while another request for the same text type has appended its
\* user turn and not yet its assistant turn.
C8_AppendsNotAtomic ==
    \A r1, r2 \in Requests :
        (/\ r1 # r2
         /\ pc[r1] = "add_ai"
         /\ pc[r2] = "add_user"
         /\ frame[r1].text_type = frame[r2].text_type)
        => ENABLED AddUserMessage(r2)

\* C8 witness: the Thirukkural log holds the user turns of two requests in
\* flight, one after the other, and the assistant turn of neither.
C8_Witness ==
    /\ pc[1] = "add_ai" /\ pc[2] = "add_ai"
    /\ frame[1].text_type = S_thirukkural /\ frame[2].text_type = S_thirukkural
    /\ frame[1].query = Q_love
    /\ frame[2].query = <<" ", "(", "i", "n", " ", "T", "h", "i", "r", "u", "k", "k", "u", "r", "a", "l", ")">>
    /\ thirukkural_history =
          << [type |-> "human", content |-> frame[1].query],
             [type |-> "human", content |-> frame[2].query] >>

\* The outcome of that interleaving: a log that does not alternate.
C8_InterleavedLogReached ==
    /\ \A r \in {1, 2} : pc[r] = "done"
    /\ Len(thirukkural_history) = 4
    /\ thirukkural_history[1].type = "human" /\ thirukkural_history[2].type = "human"
    /\ thirukkural_history[3].type = "ai" /\ thirukkural_history[4].type = "ai"

=============================================================================
